---- MODULE Spec2Model ----
(***************************************************************************)
(* Model of app.py, the Streamlit page of the altcoin predictor.           *)
(*                                                                         *)
(* One process serves a sequence of page runs.  Every page run executes    *)
(* the script top to bottom: it reads the text input, calls the memoized   *)
(* load_coin_mapping(), and, when the button was clicked, runs the         *)
(* pipeline inside the try/except of lines 25-118.                         *)
(*                                                                         *)
(* Units: timestamps are milliseconds; raw prices (source closes, model    *)
(* outputs) are integers in 1e-6 USD; values rounded to 5 digits are       *)
(* integers in 1e-5 USD; a finite percent change is an integer in 0.01 %.  *)
(* An unassigned Python name is the empty sequence <<>>, an assigned one   *)
(* is the one-element sequence <<value>>.                                  *)
(***************************************************************************)
EXTENDS Integers, Sequences, FiniteSets, TLC

VARIABLES
    cache,          \* st.cache_data entry of load_coin_mapping: <<>> or <<map>>
    listRequests,   \* GETs sent to /coins/list since the process started
    fallback_seen,  \* history: some run so far saw an empty primary result
    pc,             \* position of the current page run in the script
    coin_input,     \* line 13
    clicked,        \* value returned by st.button in this run
    coin_map,       \* line 22: <<>> until assigned
    reqs,           \* network requests issued by this run, in order
    out,            \* elements written to the page by this run, in order
    shown,          \* tables handed to st.dataframe by this run, in order
    yf,             \* result of yf.download in this run: <<>> or <<candles>>
    coin_id,        \* line 38: <<>> until assigned
    res,            \* JSON body of the market-chart response: <<>> or <<body>>
    df,             \* the price series: <<>> or <<rows>>
    fitted,         \* the series handed to Prophet.fit: <<>> or <<rows>>
    now,            \* line 61
    future_data,    \* line 62: <<>> or <<rows>>
    current_price,  \* line 63
    all_tables,     \* line 65
    hourPos,        \* index into time_slots of the next loop iteration
    download,       \* the st.download_button of this run: <<>> or <<control>>
    fault,          \* which call raised in this run
    exc             \* how the run's exception ended: none, caught, uncaught, stop

vars == <<cache, listRequests, fallback_seen, pc, coin_input, clicked,
          coin_map, reqs, out, shown, yf, coin_id, res, df, fitted, now,
          future_data, current_price, all_tables, hourPos, download, fault, exc>>

procVars == <<cache, listRequests, fallback_seen>>

----------------------------------------------------------------------------
(* Bounds *)

MaxListRequests == 3
MaxRows == 24

----------------------------------------------------------------------------
(* Program constants *)

Periods == 24
HourMs == 3600000
MinuteMs == 60000

time_slots == <<1>> \o [i \in 1..12 |-> 2 * i]

Headers == << "Hour Ahead", "Predicted Time", "Current Price (USD)",
              "Predicted Price (USD)", "Lower Prediction (Min Expected Price)",
              "Upper Prediction (Max Expected Price)", "Change (USD)",
              "Change (%)", "Trend" >>

Uptrend == "Uptrend"
Downtrend == "Downtrend"

MsgCoinNotFound == "Coin not found on CoinGecko."
MsgError == "Error occurred: "

----------------------------------------------------------------------------
(* Inputs the environment can supply *)

RawInputs == {"btc", "PEPE", "xyz"}

upper(s) ==
    CASE s = "btc" -> "BTC"
      [] s = "pepe" -> "PEPE"
      [] s = "xyz" -> "XYZ"
      [] OTHER -> s

Entry(s, i) == [symbol |-> s, id |-> i]

ListingResponses ==
    { <<>>,
      <<Entry("btc", "bitcoin")>>,
      <<Entry("btc", "bitcoin"), Entry("btc", "batcat")>>,
      <<Entry("btc", "bitcoin"), Entry("pepe", "pepe")>> }

Candle(t, c) == [Datetime |-> [t |-> t, tz |-> "UTC"], Close |-> c, Volume |-> 7]

YfResults ==
    { <<>>,
      <<Candle(0, 1000000)>>,
      <<Candle(0, 999950), Candle(HourMs, 1000000)>>,
      <<Candle(0, 7), Candle(HourMs, 4)>> }

Body(has, p) == [has_prices |-> has, prices |-> p]

ChartBodies ==
    { Body(FALSE, <<>>),
      Body(TRUE, <<>>),
      Body(TRUE, << <<0, 1000000>> >>),
      Body(TRUE, << <<1000, 1000015>>, <<HourMs + 2000, 1000025>> >>),
      Body(TRUE, << <<HourMs, 1000000>>, <<0, 1000000>> >>),
      Body(TRUE, << <<0, 1000000>>, <<HourMs, 1000000>>, <<HourMs, 1000000>> >>) }

\* Outputs of the fitted model: hourly drift and half-width of the band, raw units
Shapes == { [slope |-> s, band |-> 25] : s \in {-50, 0, 4, 50} }

----------------------------------------------------------------------------
(* Symbol resolver, lines 15-22 and 38 *)

\* {coin['symbol'].upper(): coin['id'] for coin in data}: a later entry
\* overwrites an earlier one with the same key
BuildMap(data) ==
    LET keys == { upper(data[i].symbol) : i \in DOMAIN data }
        last(k) == CHOOSE i \in DOMAIN data :
                      /\ upper(data[i].symbol) = k
                      /\ \A j \in DOMAIN data : upper(data[j].symbol) = k => j <= i
    IN  [k \in keys |-> data[last(k)].id]

\* coin_map.get(coin_input)
get(m, k) == IF k \in DOMAIN m THEN m[k] ELSE "None"

\* @st.cache_data: a value memoized by an earlier call is returned
CacheNever(c) == FALSE

CacheHas(c) == c # <<>>

----------------------------------------------------------------------------
(* Market data fetcher, lines 28-52 *)

\* lines 31-34: reset_index, tz_localize(None), keep Datetime and Close, rename
Normalize(candles) ==
    [i \in DOMAIN candles |-> [ds |-> candles[i].Datetime.t, y |-> candles[i].Close]]

\* lines 50-51: DataFrame(prices, columns=['ds','y']); to_datetime(unit='ms')
FromPrices(prices) ==
    [i \in DOMAIN prices |-> [ds |-> prices[i][1], y |-> prices[i][2]]]

\* the handler of line 117-118 writes the cause text to the page
except_pass(o, e) == o

except_Exception(o, e) == Append(o, [kind |-> "error", text |-> MsgError, cause |-> e, hour |-> 0])

Msg(k, t) == [kind |-> k, text |-> t, cause |-> "", hour |-> 0]
HourMsg(k, t, h) == [kind |-> k, text |-> t, cause |-> "", hour |-> h]

----------------------------------------------------------------------------
(* Rounding *)

\* nearest integer to num/den (den > 0), ties to the even neighbour
RoundHalfEven(num, den) ==
    LET q == num \div den
        r == num % den
    IN  IF 2 * r < den THEN q
        ELSE IF 2 * r > den THEN q + 1
        ELSE IF q % 2 = 0 THEN q ELSE q + 1

\* round(x, 5) of a raw value, in 1e-5 units
round5(x) == RoundHalfEven(x, 10)

----------------------------------------------------------------------------
(* Forecaster, lines 56-63 *)

RECURSIVE SortedSeq(_)
SortedSeq(S) ==
    IF S = {} THEN <<>>
    ELSE LET m == CHOOSE x \in S : \A y \in S : x <= y
         IN  <<m>> \o SortedSeq(S \ {m})

Last(s) == s[Len(s)]

\* Prophet.fit rejects a frame with fewer than 2 rows
FitFails(d) == Len(d) < 2

\* make_future_dataframe(periods=24, freq='H'): the distinct history dates in
\* ascending order followed by 24 hourly steps after the latest of them
make_future_dataframe(d) ==
    LET dates == { d[i].ds : i \in DOMAIN d }
        last_date == CHOOSE x \in dates : \A y \in dates : y <= x
    IN  SortedSeq(dates) \o [k \in 1..Periods |-> last_date + k * HourMs]

\* m.predict(future): one row per date with point estimate and band
predict(d, future, shape) ==
    LET dates == { d[i].ds : i \in DOMAIN d }
        last_date == CHOOSE x \in dates : \A y \in dates : y <= x
        base == Last(d).y
        yhat(t) == IF t > last_date
                   THEN base + shape.slope * ((t - last_date) \div HourMs)
                   ELSE base
    IN  [i \in DOMAIN future |->
            [ds |-> future[i], yhat |-> yhat(future[i]),
             yhat_lower |-> yhat(future[i]) - shape.band,
             yhat_upper |-> yhat(future[i]) + shape.band]]

\* line 62: forecast[forecast['ds'] > now].reset_index(drop=True)
FutureDataGE(forecast, n) ==
    LET keep(r) == r.ds >= n IN SelectSeq(forecast, keep)

FutureData(forecast, n) ==
    LET keep(r) == r.ds > n IN SelectSeq(forecast, keep)

----------------------------------------------------------------------------
(* Horizon table builder, lines 69-96 *)

\* future_data.iloc[i] raises IndexError unless -n <= i < n
IlocOK(n, i) == -n <= i /\ i < n

iloc(s, i) == IF i >= 0 THEN s[i + 1] ELSE s[Len(s) + i + 1]

\* line 71: the positional index used for a horizon
OffsetSame(hour) == hour

Offset(hour) == hour - 1

Fin(v) == [k |-> "fin", v |-> v]
NonFin(k) == [k |-> k, v |-> 0]

\* line 76: round((change / current_price) * 100, 2) on float64 operands; a zero
\* divisor yields inf, -inf or nan instead of raising
pct_change(change, cp) ==
    IF cp # 0 THEN Fin(RoundHalfEven(change * 10000, cp))
    ELSE IF change > 0 THEN NonFin("inf")
    ELSE IF change < 0 THEN NonFin("-inf")
    ELSE NonFin("nan")

\* pct_change > 0
Positive(p) == p.k = "inf" \/ (p.k = "fin" /\ p.v > 0)

\* line 77
TrendNonNegative(p) == IF Positive(p) \/ (p.k = "fin" /\ p.v = 0) THEN Uptrend ELSE Downtrend

Trend(p) == IF Positive(p) THEN Uptrend ELSE Downtrend

\* row['ds'].strftime('%Y-%m-%d %H:%M'): the timestamp cut to the minute
strftime(t) == [fmt |-> "%Y-%m-%d %H:%M", minute |-> t \div MinuteMs]

\* lines 72-89: the one-row table of a horizon; the difference of two values
\* in 1e-5 units is exact, so round(predicted - current_price, 5) keeps it
BuildTable(hour, row, cp) ==
    LET predicted == round5(row.yhat)
        lo == round5(row.yhat_lower)
        hi == round5(row.yhat_upper)
        change == predicted - cp
        pct == pct_change(change, cp)
    IN  [columns |-> Headers,
         rows |-> << [hour |-> hour, time |-> strftime(row.ds), current |-> cp,
                      predicted |-> predicted, lower |-> lo, upper |-> hi,
                      change |-> change, pct |-> <<pct, "%">>,
                      trend |-> Trend(pct)] >>]

----------------------------------------------------------------------------
(* Presentation and export, lines 98-115 *)

RECURSIVE ConcatRows(_)
ConcatRows(tables) ==
    IF tables = <<>> THEN <<>>
    ELSE Head(tables).rows \o ConcatRows(Tail(tables))

\* line 100: pd.concat(all_tables, ignore_index=True)
pd_concat_last(tables) == Last(tables)

pd_concat(tables) == [columns |-> Head(tables).columns, rows |-> ConcatRows(tables)]

\* lines 102-106: one sheet, header row from the columns, no index column
convert_excel(d) == [sheet_name |-> "Forecasts", header |-> d.columns, rows |-> d.rows]

----------------------------------------------------------------------------
(* State *)

RunInit ==
    /\ clicked = FALSE
    /\ coin_map = <<>>
    /\ reqs = <<>>
    /\ out = <<>>
    /\ shown = <<>>
    /\ yf = <<>>
    /\ coin_id = <<>>
    /\ res = <<>>
    /\ df = <<>>
    /\ fitted = <<>>
    /\ now = <<>>
    /\ future_data = <<>>
    /\ current_price = <<>>
    /\ all_tables = <<>>
    /\ hourPos = 0
    /\ download = <<>>
    /\ fault = "none"
    /\ exc = "none"

\* the process has started and no page has been served yet
Init ==
    /\ cache = <<>>
    /\ listRequests = 0
    /\ fallback_seen = FALSE
    /\ pc = "idle"
    /\ coin_input = "BTC"
    /\ RunInit

pipeVars == <<yf, coin_id, res, df, fitted, now, future_data, current_price,
              all_tables, hourPos, download, shown>>

\* lines 117-118: the run ends in the generic error state
Raise(what) ==
    /\ fault' = what
    /\ exc' = "caught"
    /\ out' = except_Exception(out, what)
    /\ pc' = "idle"

----------------------------------------------------------------------------
(* A page run, lines 9-25 *)

\* the script starts over; line 13 reads and uppercases the text input
PageRun ==
    /\ pc = "idle"
    /\ \E raw \in RawInputs : coin_input' = upper(raw)
    /\ pc' = "load"
    /\ clicked' = FALSE
    /\ coin_map' = <<>>
    /\ reqs' = <<>>
    /\ out' = <<>>
    /\ shown' = <<>>
    /\ yf' = <<>>
    /\ coin_id' = <<>>
    /\ res' = <<>>
    /\ df' = <<>>
    /\ fitted' = <<>>
    /\ now' = <<>>
    /\ future_data' = <<>>
    /\ current_price' = <<>>
    /\ all_tables' = <<>>
    /\ hourPos' = 0
    /\ download' = <<>>
    /\ fault' = "none"
    /\ exc' = "none"
    /\ UNCHANGED procVars

\* line 22, memoized value present: no request
LoadCached ==
    /\ pc = "load"
    /\ CacheHas(cache)
    /\ coin_map' = <<cache[1]>>
    /\ pc' = "button"
    /\ UNCHANGED <<procVars, coin_input, clicked, reqs, out, fault, exc>>
    /\ UNCHANGED pipeVars

\* line 22, first load: lines 17-20 run and the result is memoized
LoadFetch ==
    /\ pc = "load"
    /\ ~CacheHas(cache)
    /\ listRequests < MaxListRequests
    /\ \E data \in ListingResponses :
          /\ cache' = <<BuildMap(data)>>
          /\ coin_map' = <<BuildMap(data)>>
    /\ listRequests' = listRequests + 1
    /\ reqs' = Append(reqs, "listing")
    /\ pc' = "button"
    /\ UNCHANGED <<fallback_seen, coin_input, clicked, out, fault, exc>>
    /\ UNCHANGED pipeVars

\* line 22, the request or the parsing raises: nothing is memoized, and the
\* call stands outside the try of line 26, so the exception ends the script
LoadFault ==
    /\ pc = "load"
    /\ ~CacheHas(cache)
    /\ listRequests + 1 < MaxListRequests
    /\ listRequests' = listRequests + 1
    /\ reqs' = Append(reqs, "listing")
    /\ fault' = "listing"
    /\ exc' = "uncaught"
    /\ pc' = "idle"
    /\ UNCHANGED <<cache, fallback_seen, coin_input, clicked, coin_map, out>>
    /\ UNCHANGED pipeVars

\* line 25-27
Button ==
    /\ pc = "button"
    /\ \E c \in BOOLEAN :
          /\ clicked' = c
          /\ IF c THEN /\ out' = Append(out, Msg("info", "Fetching market data..."))
                       /\ pc' = "primary"
                  ELSE /\ out' = out
                       /\ pc' = "idle"
    /\ UNCHANGED <<procVars, coin_input, coin_map, reqs, fault, exc>>
    /\ UNCHANGED pipeVars

----------------------------------------------------------------------------
(* Fetch stage, lines 28-52 *)

runConst == <<cache, listRequests, coin_input, clicked, coin_map>>
lateVars == <<fitted, now, future_data, current_price, all_tables, hourPos,
              download, shown>>

\* line 28 raises
PrimaryFault ==
    /\ pc = "primary"
    /\ reqs' = Append(reqs, "primary")
    /\ Raise("primary")
    /\ UNCHANGED <<runConst, fallback_seen, yf, coin_id, res, df>>
    /\ UNCHANGED lateVars

PrimaryDataThenFallback ==
    /\ pc = "primary"
    /\ reqs' = Append(reqs, "primary")
    /\ \E r \in YfResults \ {<<>>} : yf' = <<r>>
    /\ out' = Append(out, Msg("warning", "Yahoo Finance failed. Trying CoinGecko..."))
    /\ pc' = "lookup"
    /\ UNCHANGED <<runConst, fallback_seen, coin_id, res, df, fault, exc>>
    /\ UNCHANGED lateVars

PrimaryDataLookup ==
    /\ pc = "primary"
    /\ reqs' = Append(reqs, "primary")
    /\ \E r \in YfResults \ {<<>>} :
          /\ yf' = <<r>>
          /\ df' = <<Normalize(r)>>
    /\ coin_id' = <<get(coin_map[1], coin_input)>>
    /\ out' = Append(out, Msg("success", "Data loaded from Yahoo Finance."))
    /\ pc' = "fit"
    /\ UNCHANGED <<runConst, fallback_seen, res, fault, exc>>
    /\ UNCHANGED lateVars

\* lines 28-35: the primary result is not empty
PrimaryData ==
    /\ pc = "primary"
    /\ reqs' = Append(reqs, "primary")
    /\ \E r \in YfResults \ {<<>>} :
          /\ yf' = <<r>>
          /\ df' = <<Normalize(r)>>
    /\ out' = Append(out, Msg("success", "Data loaded from Yahoo Finance."))
    /\ pc' = "fit"
    /\ UNCHANGED <<runConst, fallback_seen, coin_id, res, fault, exc>>
    /\ UNCHANGED lateVars

\* lines 28-30, 36-37: the primary result is empty
PrimaryEmpty ==
    /\ pc = "primary"
    /\ reqs' = Append(reqs, "primary")
    /\ yf' = << <<>> >>
    /\ fallback_seen' = TRUE
    /\ out' = Append(out, Msg("warning", "Yahoo Finance failed. Trying CoinGecko..."))
    /\ pc' = "lookup"
    /\ UNCHANGED <<runConst, coin_id, res, df, fault, exc>>
    /\ UNCHANGED lateVars

LookupNoStop ==
    /\ pc = "lookup"
    /\ coin_id' = <<get(coin_map[1], coin_input)>>
    /\ IF get(coin_map[1], coin_input) = "None"
       THEN out' = Append(out, Msg("error", MsgCoinNotFound))
       ELSE out' = out
    /\ pc' = "secondary"
    /\ UNCHANGED <<runConst, fallback_seen, reqs, yf, res, df, fault, exc>>
    /\ UNCHANGED lateVars

\* lines 38-41: st.stop() ends the script; its exception is not an Exception
\* subclass, so the handler of line 117 does not see it
Lookup ==
    /\ pc = "lookup"
    /\ coin_id' = <<get(coin_map[1], coin_input)>>
    /\ IF get(coin_map[1], coin_input) = "None"
       THEN /\ out' = Append(out, Msg("error", MsgCoinNotFound))
            /\ exc' = "stop"
            /\ pc' = "idle"
       ELSE /\ out' = out
            /\ exc' = exc
            /\ pc' = "secondary"
    /\ UNCHANGED <<runConst, fallback_seen, reqs, yf, res, df, fault>>
    /\ UNCHANGED lateVars

\* line 47 or 48 raises
SecondaryFault ==
    /\ pc = "secondary"
    /\ reqs' = Append(reqs, "chart")
    /\ Raise("chart")
    /\ UNCHANGED <<runConst, fallback_seen, yf, coin_id, res, df>>
    /\ UNCHANGED lateVars

\* lines 43-52: a JSON body arrived; data['prices'] raises KeyError without the key
SecondaryBody ==
    /\ pc = "secondary"
    /\ reqs' = Append(reqs, "chart")
    /\ \E b \in ChartBodies :
          /\ res' = <<b>>
          /\ IF b.has_prices
             THEN /\ df' = <<FromPrices(b.prices)>>
                  /\ out' = Append(out, Msg("success", "Data loaded from CoinGecko."))
                  /\ pc' = "fit"
                  /\ UNCHANGED <<fault, exc>>
             ELSE /\ Raise("prices")
                  /\ df' = df
    /\ UNCHANGED <<runConst, fallback_seen, yf, coin_id>>
    /\ UNCHANGED lateVars

----------------------------------------------------------------------------
(* Forecast stage, lines 55-67 *)

Fit ==
    /\ pc = "fit"
    /\ fitted' = df
    /\ IF FitFails(df[1])
       THEN /\ fault' = "fit"
            /\ exc' = "caught"
            /\ out' = except_Exception(Append(out, Msg("info", "Predicting future prices...")), "fit")
            /\ pc' = "idle"
            /\ UNCHANGED <<now, future_data, current_price, hourPos>>
       ELSE /\ \E shape \in Shapes :
                LET future == make_future_dataframe(df[1])
                    forecast == predict(df[1], future, shape)
                IN  future_data' = <<FutureData(forecast, Last(df[1]).ds)>>
            /\ now' = <<Last(df[1]).ds>>
            /\ current_price' = <<round5(Last(df[1]).y)>>
            /\ hourPos' = 1
            /\ out' = out \o << Msg("info", "Predicting future prices..."),
                               Msg("header", "Forecast Tables (1-24 Hours)") >>
            /\ pc' = "loop"
            /\ UNCHANGED <<fault, exc>>
    /\ all_tables' = <<>>
    /\ UNCHANGED <<runConst, fallback_seen, reqs, yf, coin_id, res, df, download, shown>>

----------------------------------------------------------------------------
(* Horizon loop, lines 69-96 *)

\* one iteration: the bare except turns the IndexError into a warning
HorizonStep ==
    /\ pc = "loop"
    /\ hourPos \in 1..Len(time_slots)
    /\ LET hour == time_slots[hourPos]
           fd == future_data[1]
       IN  IF IlocOK(Len(fd), Offset(hour))
           THEN LET table == BuildTable(hour, iloc(fd, Offset(hour)), current_price[1])
                IN  /\ out' = out \o << HourMsg("markdown", "Forecast After Hour(s)", hour),
                                       HourMsg("dataframe", "", hour) >>
                    /\ shown' = Append(shown, table)
                    /\ all_tables' = Append(all_tables, table)
           ELSE /\ out' = Append(out, HourMsg("warning", "Not enough data for hours.", hour))
                /\ UNCHANGED <<shown, all_tables>>
    /\ hourPos' = hourPos + 1
    /\ pc' = IF hourPos = Len(time_slots) THEN "export" ELSE "loop"
    /\ UNCHANGED <<runConst, fallback_seen, reqs, yf, coin_id, res, df, fitted,
                   now, future_data, current_price, download, fault, exc>>

----------------------------------------------------------------------------
(* Export, lines 98-115 *)

Export ==
    /\ pc = "export"
    /\ IF all_tables # <<>>
       THEN LET full_df == pd_concat(all_tables)
                excel_data == convert_excel(full_df)
            IN  /\ download' = << [label |-> "Download All Forecasts (Excel)",
                                  data |-> excel_data,
                                  file_name |-> <<coin_input, "_forecast.xlsx">>] >>
                /\ out' = Append(out, Msg("download_button", "Download All Forecasts (Excel)"))
       ELSE UNCHANGED <<download, out>>
    /\ pc' = "idle"
    /\ UNCHANGED <<runConst, fallback_seen, reqs, yf, coin_id, res, df, fitted,
                   now, future_data, current_price, all_tables, hourPos, shown,
                   fault, exc>>

----------------------------------------------------------------------------
(* Specifications *)

Next ==
    \/ PageRun
    \/ LoadCached
    \/ LoadFetch
    \/ LoadFault
    \/ Button
    \/ PrimaryFault
    \/ PrimaryData
    \/ PrimaryEmpty
    \/ Lookup
    \/ SecondaryFault
    \/ SecondaryBody
    \/ Fit
    \/ HorizonStep
    \/ Export

Spec == Init /\ [][Next]_vars

\* The horizon loop and the export as a function of the future sequence: the
\* run stands at line 69 with any future sequence of 0..MaxRows rows
FutureRows(n, shape, base) ==
    [k \in 1..n |-> [ds |-> k * HourMs, yhat |-> base + shape.slope * k,
                     yhat_lower |-> base + shape.slope * k - shape.band,
                     yhat_upper |-> base + shape.slope * k + shape.band]]

BasePrices == {4, 1000000}

InitLoop ==
    /\ cache = << BuildMap(<<Entry("btc", "bitcoin")>>) >>
    /\ listRequests = 1
    /\ fallback_seen = FALSE
    /\ coin_input = "BTC"
    /\ clicked = TRUE
    /\ coin_map = cache
    /\ reqs = <<"primary">>
    /\ coin_id = <<>>
    /\ res = <<>>
    /\ \E n \in 0..MaxRows, shape \in Shapes, base \in BasePrices :
          /\ yf = << <<Candle(-HourMs, base), Candle(0, base)>> >>
          /\ df = <<Normalize(yf[1])>>
          /\ future_data = <<FutureRows(n, shape, base)>>
          /\ current_price = <<round5(base)>>
    /\ fitted = df
    /\ now = <<0>>
    /\ out = << Msg("info", "Fetching market data..."),
                Msg("success", "Data loaded from Yahoo Finance."),
                Msg("info", "Predicting future prices..."),
                Msg("header", "Forecast Tables (1-24 Hours)") >>
    /\ shown = <<>>
    /\ all_tables = <<>>
    /\ hourPos = 1
    /\ download = <<>>
    /\ fault = "none"
    /\ exc = "none"
    /\ pc = "loop"

NextLoop ==
    \/ HorizonStep
    \/ Export

SpecLoop == InitLoop /\ [][NextLoop]_vars

----------------------------------------------------------------------------
(* Properties *)

Range(s) == { s[i] : i \in DOMAIN s }
IsError(m) == m.kind = "error"
Errors(o) == SelectSeq(o, IsError)
Kinds(o) == { o[i].kind : i \in DOMAIN o }
PrimaryWasEmpty == yf = << <<>> >>
PrimaryHadData == yf # <<>> /\ yf[1] # <<>>
Abs(x) == IF x < 0 THEN -x ELSE x
Hours(tables) == [i \in DOMAIN tables |-> tables[i].rows[1].hour]

\* C1: the primary source is queried before anything of the fallback path; the
\* lookup and the market-chart request happen only after an empty primary
\* result; with a non-empty primary result the forecaster gets the normalized
\* primary series and no market-chart request is issued.
C1_PrimaryFirst ==
    /\ \A j \in DOMAIN reqs :
          reqs[j] = "chart" =>
             /\ \E i \in 1..(j - 1) : reqs[i] = "primary"
             /\ PrimaryWasEmpty
    /\ pc \in {"lookup", "secondary", "fit", "loop", "export"} => "primary" \in Range(reqs)
    /\ coin_id # <<>> => ("primary" \in Range(reqs) /\ PrimaryWasEmpty)
    /\ PrimaryHadData =>
          /\ coin_id = <<>>
          /\ res = <<>>
          /\ "chart" \notin Range(reqs)
          /\ df = <<Normalize(yf[1])>>
          /\ fitted # <<>> => fitted = <<Normalize(yf[1])>>

C1_Witness ==
    /\ pc = "export"
    /\ PrimaryHadData
    /\ fitted = df
    /\ reqs = <<"primary">>

TickerAbsent ==
    /\ PrimaryWasEmpty
    /\ coin_map # <<>>
    /\ coin_input \notin DOMAIN coin_map[1]
    /\ coin_id # <<>>

\* C2: after an empty primary result and a lookup of a ticker that the
\* SymbolMap does not hold, the run is over: the CoinNotFound message is its
\* only error and its last output, no market-chart request was issued, the
\* forecaster was not invoked, no table was rendered and no export is offered.
C2_CoinNotFoundHalts ==
    TickerAbsent =>
        /\ pc = "idle"
        /\ exc = "stop"
        /\ fault = "none"
        /\ Errors(out) = << Msg("error", MsgCoinNotFound) >>
        /\ Last(out) = Msg("error", MsgCoinNotFound)
        /\ "chart" \notin Range(reqs)
        /\ res = <<>>
        /\ fitted = <<>>
        /\ shown = <<>>
        /\ all_tables = <<>>
        /\ download = <<>>
        /\ Kinds(out) \cap {"dataframe", "download_button"} = {}

C2_Witness ==
    /\ TickerAbsent
    /\ pc = "idle"
    /\ coin_input = "PEPE"
    /\ "BTC" \in DOMAIN coin_map[1]

Warnings(h) == { i \in DOMAIN out : out[i].kind = "warning" /\ out[i].hour = h }
TablesOf(h) == { i \in DOMAIN all_tables : all_tables[i].rows[1].hour = h }

\* C3: of the horizons the loop has gone through, horizon h has a table iff
\* h <= n (n rows in the future sequence), the table is built from the row at
\* zero-based offset h-1, a horizon with h > n has exactly one warning and no
\* table, the loop goes through all 13 horizons, and the tables are in
\* ascending horizon order (n = 10 gives 1,2,4,6,8,10).
C3_HorizonsBuilt ==
    (future_data # <<>> /\ hourPos >= 1) =>
        LET fd == future_data[1]
            n == Len(fd)
        IN  /\ \A p \in 1..(hourPos - 1) :
                  LET h == time_slots[p]
                  IN  IF h <= n
                      THEN /\ Cardinality(TablesOf(h)) = 1
                           /\ Warnings(h) = {}
                           /\ \A i \in TablesOf(h) :
                                 /\ all_tables[i].rows[1].time = strftime(fd[h].ds)
                                 /\ all_tables[i].rows[1].predicted = round5(fd[h].yhat)
                      ELSE /\ TablesOf(h) = {}
                           /\ Cardinality(Warnings(h)) = 1
            /\ \A i, j \in DOMAIN all_tables :
                  i < j => all_tables[i].rows[1].hour < all_tables[j].rows[1].hour
            /\ pc \in {"export", "idle"} => hourPos = 14
            /\ (pc = "idle" /\ n = 10) => Hours(all_tables) = <<1, 2, 4, 6, 8, 10>>

C3_Witness ==
    /\ pc = "idle"
    /\ future_data # <<>>
    /\ Len(future_data[1]) = 10
    /\ Hours(all_tables) = <<1, 2, 4, 6, 8, 10>>
    /\ Cardinality({ i \in DOMAIN out : out[i].kind = "warning" }) = 7

\* C4: in every built row the change is predicted minus current, the percent
\* change is the value nearest to 100 * change / current at two digits (ties
\* to even; inf, -inf or nan for a zero current price), and the trend is
\* Uptrend iff the rounded percent change is > 0, so 0.00 gives Downtrend.
C4_DerivedFields ==
    \A i \in DOMAIN all_tables :
        LET r == all_tables[i].rows[1]
            p == r.pct[1]
        IN  /\ r.change = r.predicted - r.current
            /\ r.current = current_price[1]
            /\ r.pct[2] = "%"
            /\ r.current > 0 =>
                  /\ p.k = "fin"
                  /\ 2 * Abs(p.v * r.current - 10000 * r.change) <= r.current
                  /\ 2 * Abs(p.v * r.current - 10000 * r.change) = r.current => p.v % 2 = 0
            /\ r.current = 0 =>
                  p.k = (IF r.change > 0 THEN "inf" ELSE IF r.change < 0 THEN "-inf" ELSE "nan")
            /\ r.trend \in {Uptrend, Downtrend}
            /\ r.trend = Uptrend <=> (p.k = "inf" \/ (p.k = "fin" /\ p.v > 0))
            /\ (p.k = "fin" /\ p.v = 0) => r.trend = Downtrend

C4_Witness ==
    \E i \in DOMAIN all_tables :
        LET r == all_tables[i].rows[1]
        IN  /\ r.change > 0
            /\ r.pct[1] = Fin(0)
            /\ r.trend = Downtrend

LoopEnded == pc = "idle" /\ hourPos = Len(time_slots) + 1

\* C5: when the run has gone through the horizon loop and the export step, the
\* export control is offered iff at least one table was displayed; the sheet
\* then has one row per displayed table, in the same (ascending) order, and
\* its header is the header of every displayed table.
C5_ExportMatchesTables ==
    /\ ~LoopEnded => download = <<>>
    /\ LoopEnded =>
          /\ download # <<>> <=> shown # <<>>
          /\ "download_button" \in Kinds(out) <=> shown # <<>>
          /\ Len(shown) = Len(all_tables)
          /\ download # <<>> =>
                LET sheet == download[1].data
                IN  /\ Len(sheet.rows) = Len(shown)
                    /\ \A i \in DOMAIN shown :
                          /\ sheet.rows[i] = shown[i].rows[1]
                          /\ sheet.header = shown[i].columns
                    /\ \A i, j \in DOMAIN sheet.rows :
                          i < j => sheet.rows[i].hour < sheet.rows[j].hour
                    /\ sheet.header = Headers

C5_Witness ==
    /\ LoopEnded
    /\ Len(shown) = 6
    /\ download # <<>>
    /\ Len(download[1].data.rows) = 6

\* C6 as stated: the coin-listing endpoint is requested at most once in the
\* lifetime of the process.
C6_AtMostOneRequest == listRequests <= 1

\* C6 amended: once a load has succeeded the memoized SymbolMap never changes,
\* no further listing request is issued, and every later page run gets that
\* same mapping; a load that failed is not memoized and is requested again.
C6_MemoizedAfterSuccess ==
    [][ /\ cache # <<>> => (cache' = cache /\ listRequests' = listRequests)
        /\ coin_map' # <<>> => coin_map' = cache'
        /\ listRequests' # listRequests =>
              (cache = <<>> /\ listRequests' = listRequests + 1) ]_vars

C6_Witness ==
    /\ listRequests >= 2
    /\ pc = "button"
    /\ reqs = <<>>
    /\ coin_map = cache
    /\ cache # <<>>

\* C7: a fault of the listing request, the primary request or the market-chart
\* request ends the run in the generic error state of the pipeline handler,
\* with the cause shown; it never escapes uncaught.
C7_FetchFaultsHandled ==
    fault \in {"listing", "primary", "chart"} =>
        /\ exc = "caught"
        /\ out # <<>>
        /\ Last(out).kind = "error"
        /\ Last(out).cause = fault

StrictlyIncreasing(d) == \A i, j \in DOMAIN d : i < j => d[i].ds < d[j].ds

\* C9: for a series of at least 2 points with strictly increasing timestamps
\* the retained future sequence has exactly 24 rows, row h carrying the
\* timestamp of the last historical point plus h hours, and the table of
\* horizon h shows that timestamp.
C9_FutureSequence ==
    (future_data # <<>> /\ df # <<>> /\ Len(df[1]) >= 2 /\ StrictlyIncreasing(df[1])) =>
        LET fd == future_data[1]
            last == Last(df[1]).ds
        IN  /\ Len(fd) = 24
            /\ \A h \in 1..24 : Len(fd) >= h => fd[h].ds = last + h * 3600000
            /\ \A i \in DOMAIN fd : fd[i].ds > last
            /\ \A i \in DOMAIN all_tables :
                  LET r == all_tables[i].rows[1]
                  IN  r.time.minute = (last + r.hour * 3600000) \div 60000

C9_Witness ==
    /\ pc = "export"
    /\ res # <<>>
    /\ Len(df[1]) >= 2
    /\ StrictlyIncreasing(df[1])
    /\ Last(df[1]).ds = HourMs + 2000
    /\ Len(future_data[1]) = 24
    /\ Len(all_tables) = 13

NoUsablePrices == res # <<>> /\ (~res[1].has_prices \/ res[1].prices = <<>>)

\* C10: after an empty primary result, a resolved symbol and a market-chart
\* body without usable prices, the run ends in the generic error state of the
\* top-level handler, with no table rendered and no export offered.
C10_NoDataIsGenericError ==
    NoUsablePrices =>
        /\ PrimaryWasEmpty
        /\ coin_id # <<>> /\ coin_id[1] # "None"
        /\ shown = <<>>
        /\ all_tables = <<>>
        /\ download = <<>>
        /\ Kinds(out) \cap {"dataframe", "download_button"} = {}
        /\ pc \in {"fit", "idle"}
        /\ pc = "idle" =>
              /\ exc = "caught"
              /\ fault \in {"prices", "fit"}
              /\ Last(out).kind = "error"
              /\ Last(out).text = MsgError
              /\ Len(Errors(out)) = 1

C10_Witness ==
    /\ NoUsablePrices
    /\ res[1].has_prices
    /\ pc = "idle"
    /\ exc = "caught"
    /\ fault = "fit"

====
